---- MODULE Spec2Model ----
(***************************************************************************)
(* Model of scripts/generate_eutl_json.py: generate_trust_list() flattens  *)
(* the curated QTSP table into provider-pattern entries, wraps them in an  *)
(* envelope stamped from the UTC clock, writes the JSON file and prints a  *)
(* summary to stderr.                                                      *)
(*                                                                         *)
(* Strings that the code inspects character by character (country, name,   *)
(* issuer DN patterns) are sequences of one-character strings; strings the *)
(* code only copies are TLA+ strings.                                      *)
(***************************************************************************)
EXTENDS Integers, Sequences, FiniteSets, TLC

VARIABLES
    records,      \* KNOWN_QTSP_PROVIDERS, the input table
    pc,           \* position of generate_trust_list in its body
    i,            \* index of the record the outer loop is at
    j,            \* index of the pattern the inner loop is at
    providers,    \* the local list `providers`
    now,          \* last reading of the UTC clock, in ticks
    version,      \* value computed for output['version']
    output,       \* the local dict `output`
    dirExists,    \* whether static/trust/ exists
    file,         \* static/trust/eutl-providers.json on disk
    fsops,        \* file-system operations performed so far, in order
    stderr,       \* messages printed to sys.stderr, in order
    outcome,      \* "running", "success" (normal return) or "failure" (raised)
    failedAt      \* the step whose exception ended the run, or "none"

vars == <<records, pc, i, j, providers, now, version, output, dirExists,
          file, fsops, stderr, outcome, failedAt>>

----------------------------------------------------------------------------
(* Bounds *)

MaxRecords == 2
MaxPatterns == 2
MaxStrLen == 3
MaxClock == 2
TicksPerDay == 2

----------------------------------------------------------------------------
(* Strings *)

Upper == {"A"}
Whitespace == {" ", "\t"}
Alphabet == {"A", "a", "=", " ", "\t"}

RECURSIVE StringsUpTo(_)
StringsUpTo(n) ==
    IF n = 0 THEN {<<>>}
    ELSE LET S == StringsUpTo(n - 1)
         IN  S \cup {Append(s, c) : s \in {t \in S : Len(t) = n - 1}, c \in Alphabet}

\* str.lower() on one character
LowerChar(c) == IF c = "A" THEN "a" ELSE c

\* str.lower()
Lower(s) == [k \in DOMAIN s |-> LowerChar(s[k])]

\* str.lstrip()
RECURSIVE LStrip(_)
LStrip(s) ==
    IF s # <<>> /\ Head(s) \in Whitespace THEN LStrip(Tail(s)) ELSE s

\* str.rstrip()
RECURSIVE RStrip(_)
RStrip(s) ==
    IF s # <<>> /\ s[Len(s)] \in Whitespace
    THEN RStrip(SubSeq(s, 1, Len(s) - 1))
    ELSE s

\* str.strip()
Strip(s) == RStrip(LStrip(s))

\* mutant: only leading whitespace is removed
CanonicalLeadingOnly(pattern) == LStrip(Lower(pattern))

\* pattern.lower().strip()
Canonical(pattern) == Strip(Lower(pattern))

----------------------------------------------------------------------------
(* The input table *)

Countries == {<<"C", "Z">>, <<"E", "U">>}
Names == {<<"P", "S">>, <<"Q">>}
ServiceTypes == {"QCertESig"}
Statuses == {"granted"}

\* the k-th pattern of a record of the tables: two patterns alternate
PatternAt(k) == IF k % 2 = 1 THEN <<" ", "A">> ELSE <<"a", "=">>

\* the pattern lists of the records of the tables, of every length
PatternLists == {[k \in 1..n |-> PatternAt(k)] : n \in 0..MaxPatterns}

RECURSIVE SeqsUpTo(_, _)
SeqsUpTo(S, n) ==
    IF n = 0 THEN {<<>>}
    ELSE LET T == SeqsUpTo(S, n - 1)
         IN  T \cup {Append(t, x) : t \in {u \in T : Len(u) = n - 1}, x \in S}

QTSPRecords(patternLists) ==
    [country : Countries, name : Names, serviceType : ServiceTypes,
     status : Statuses, issuerDnPatterns : patternLists]

\* tables of up to MaxRecords records, each with up to MaxPatterns patterns
TableInputs == SeqsUpTo(QTSPRecords(PatternLists), MaxRecords)

\* one-record tables whose single pattern is any string over the alphabet
PatternInputs ==
    {<<[country |-> <<"D", "E">>, name |-> <<"D">>, serviceType |-> "CertESig",
        status |-> "granted", issuerDnPatterns |-> <<p>>]>> :
        p \in StringsUpTo(MaxStrLen)}

Inputs == TableInputs \cup PatternInputs

----------------------------------------------------------------------------
(* Entries, envelope, JSON *)

None == "None"
JsonNull == "null"
Source == "Curated list of European QTSPs"
Note == "This is a curated list of major European Qualified Trust Service Providers."
OutputPath == "static/trust/eutl-providers.json"

\* f"{qtsp['country']}:{qtsp['name']}"
ProviderId(qtsp) == qtsp.country \o <<":">> \o qtsp.name

\* mutant: serviceType and status are swapped
ProviderEntrySwapped(qtsp, pattern) ==
    [id                |-> ProviderId(qtsp),
     country           |-> qtsp.country,
     name              |-> qtsp.name,
     serviceType       |-> qtsp.status,
     status            |-> qtsp.serviceType,
     issuerDnPattern   |-> pattern,
     issuerDnCanonical |-> Canonical(pattern),
     subjectKeyIdHex   |-> None]

ProviderEntry(qtsp, pattern) ==
    [id                |-> ProviderId(qtsp),
     country           |-> qtsp.country,
     name              |-> qtsp.name,
     serviceType       |-> qtsp.serviceType,
     status            |-> qtsp.status,
     issuerDnPattern   |-> pattern,
     issuerDnCanonical |-> Canonical(pattern),
     subjectKeyIdHex   |-> None]

\* strftime('%Y-%m-%d') of an instant: its calendar date
DateOf(t) == t \div TicksPerDay

\* f"qtsp-{...strftime('%Y-%m-%d')}"
FormatVersion(t) == [prefix |-> "qtsp-", date |-> DateOf(t)]

\* datetime.isoformat(): date, 'T', time of day
IsoFormat(t) == [date |-> DateOf(t), time |-> t % TicksPerDay]

NoVersion == FormatVersion(-TicksPerDay)

\* mutant: providerCount counts the records instead of the entries
MakeOutputCountsRecords(v, g, ps) ==
    [version       |-> v,
     generatedAt   |-> g,
     source        |-> Source,
     note          |-> Note,
     providerCount |-> Len(records),
     providers     |-> ps]

MakeOutput(v, g, ps) ==
    [version       |-> v,
     generatedAt   |-> g,
     source        |-> Source,
     note          |-> Note,
     providerCount |-> Len(ps),
     providers     |-> ps]

NoOutput == MakeOutput(NoVersion, IsoFormat(-TicksPerDay), <<>>)

\* json.dump of one entry: its members in insertion order, None as null
JsonEntry(e) ==
    << <<"id", e.id>>, <<"country", e.country>>, <<"name", e.name>>,
       <<"serviceType", e.serviceType>>, <<"status", e.status>>,
       <<"issuerDnPattern", e.issuerDnPattern>>,
       <<"issuerDnCanonical", e.issuerDnCanonical>>,
       <<"subjectKeyIdHex",
         IF e.subjectKeyIdHex = None THEN JsonNull ELSE e.subjectKeyIdHex>> >>

\* json.dump(output, f, indent=2, ensure_ascii=False): the members of the
\* document in insertion order
JsonDump(o) ==
    << <<"version", o.version>>, <<"generatedAt", o.generatedAt>>,
       <<"source", o.source>>, <<"note", o.note>>,
       <<"providerCount", o.providerCount>>,
       <<"providers", [k \in DOMAIN o.providers |-> JsonEntry(o.providers[k])]>> >>

\* what the file holds before the run when it already exists
OldContent == JsonDump(NoOutput)

----------------------------------------------------------------------------
(* The run *)

Init ==
    /\ records \in Inputs
    /\ pc = "start"
    /\ i = 1
    /\ j = 1
    /\ providers = <<>>
    /\ now = 0
    /\ version = NoVersion
    /\ output = NoOutput
    /\ \E d \in BOOLEAN, f \in BOOLEAN :
          /\ f => d
          /\ dirExists = d
          /\ file = [exists |-> f, content |-> IF f THEN OldContent ELSE <<>>]
    /\ fsops = <<>>
    /\ stderr = <<>>
    /\ outcome = "running"
    /\ failedAt = "none"

\* line 310-312
Start ==
    /\ pc = "start"
    /\ stderr' = Append(stderr, [kind |-> "progress"])
    /\ providers' = <<>>
    /\ i' = 1
    /\ j' = 1
    /\ pc' = "flatten"
    /\ UNCHANGED <<records, now, version, output, dirExists, file, fsops,
                   outcome, failedAt>>

\* mutant: the new entry is inserted at the front of the list
AppendEntryAtFront ==
    /\ pc = "flatten"
    /\ i <= Len(records)
    /\ j <= Len(records[i].issuerDnPatterns)
    /\ providers' = <<ProviderEntry(records[i], records[i].issuerDnPatterns[j])>>
                        \o providers
    /\ j' = j + 1
    /\ UNCHANGED <<records, pc, i, now, version, output, dirExists, file, fsops,
                   stderr, outcome, failedAt>>

\* mutant: a record repeating an earlier (country, name) pair is rejected
AppendEntryRejectsDuplicate ==
    /\ pc = "flatten"
    /\ i <= Len(records)
    /\ j <= Len(records[i].issuerDnPatterns)
    /\ IF \E a \in 1..(i - 1) : /\ records[a].country = records[i].country
                                 /\ records[a].name = records[i].name
       THEN /\ pc' = "aborted"
            /\ outcome' = "failure"
            /\ failedAt' = "validation"
            /\ UNCHANGED <<providers, j>>
       ELSE /\ providers' = Append(providers,
                              ProviderEntry(records[i], records[i].issuerDnPatterns[j]))
            /\ j' = j + 1
            /\ UNCHANGED <<pc, outcome, failedAt>>
    /\ UNCHANGED <<records, i, now, version, output, dirExists, file, fsops,
                   stderr>>

\* lines 316-327: one iteration of the inner loop
AppendEntry ==
    /\ pc = "flatten"
    /\ i <= Len(records)
    /\ j <= Len(records[i].issuerDnPatterns)
    /\ providers' = Append(providers,
                           ProviderEntry(records[i], records[i].issuerDnPatterns[j]))
    /\ j' = j + 1
    /\ UNCHANGED <<records, pc, i, now, version, output, dirExists, file, fsops,
                   stderr, outcome, failedAt>>

\* line 314/316: the inner loop is exhausted, the outer loop advances
NextRecord ==
    /\ pc = "flatten"
    /\ i <= Len(records)
    /\ j > Len(records[i].issuerDnPatterns)
    /\ i' = i + 1
    /\ j' = 1
    /\ UNCHANGED <<records, pc, providers, now, version, output, dirExists, file,
                   fsops, stderr, outcome, failedAt>>

\* line 329: the outer loop is exhausted
PrintGenerated ==
    /\ pc = "flatten"
    /\ i > Len(records)
    /\ stderr' = Append(stderr, [kind |-> "generated", patterns |-> Len(providers),
                                 qtsps |-> Len(records)])
    /\ pc' = "version"
    /\ UNCHANGED <<records, i, j, providers, now, version, output, dirExists,
                   file, fsops, outcome, failedAt>>

\* line 333: datetime.now(timezone.utc) read for 'version'
SampleVersion ==
    /\ pc = "version"
    /\ \E t \in now..MaxClock :
          /\ now' = t
          /\ version' = FormatVersion(t)
    /\ pc' = "generatedAt"
    /\ UNCHANGED <<records, i, j, providers, output, dirExists, file, fsops,
                   stderr, outcome, failedAt>>

\* lines 334-339: datetime.now(timezone.utc) read for 'generatedAt', then the
\* dict is built
BuildOutput ==
    /\ pc = "generatedAt"
    /\ \E t \in now..MaxClock :
          /\ now' = t
          /\ output' = MakeOutput(version, IsoFormat(t), providers)
    /\ pc' = "mkdir"
    /\ UNCHANGED <<records, i, j, providers, version, dirExists, file, fsops,
                   stderr, outcome, failedAt>>

\* an exception leaves generate_trust_list and ends the process
Raise(step) ==
    /\ pc' = "aborted"
    /\ outcome' = "failure"
    /\ failedAt' = step

\* mutant: a failed mkdir is reported as a warning and the run goes on
MkdirWarnsOnly ==
    /\ pc = "mkdir"
    /\ fsops' = Append(fsops, "mkdir")
    /\ \/ /\ dirExists' = TRUE
          /\ UNCHANGED stderr
       \/ /\ stderr' = Append(stderr, [kind |-> "warning"])
          /\ UNCHANGED dirExists
    /\ pc' = "open"
    /\ UNCHANGED <<records, i, j, providers, now, version, output, file, outcome,
                   failedAt>>

\* lines 342-343: output_path.parent.mkdir(parents=True, exist_ok=True)
Mkdir ==
    /\ pc = "mkdir"
    /\ fsops' = Append(fsops, "mkdir")
    /\ \/ /\ dirExists' = TRUE
          /\ pc' = "open"
          /\ UNCHANGED <<outcome, failedAt>>
       \/ /\ Raise("mkdir")
          /\ UNCHANGED dirExists
    /\ UNCHANGED <<records, i, j, providers, now, version, output, file, stderr>>

\* mutant: the file is opened in append mode, keeping what it held
OpenFileAppendMode ==
    /\ pc = "open"
    /\ fsops' = Append(fsops, "open_w")
    /\ \/ /\ dirExists
          /\ file' = [exists |-> TRUE, content |-> file.content]
          /\ pc' = "dump"
          /\ UNCHANGED <<outcome, failedAt>>
       \/ /\ Raise("open")
          /\ UNCHANGED file
    /\ UNCHANGED <<records, i, j, providers, now, version, output, dirExists,
                   stderr>>

\* line 345: open(output_path, 'w', encoding='utf-8')
OpenFile ==
    /\ pc = "open"
    /\ fsops' = Append(fsops, "open_w")
    /\ \/ /\ dirExists
          /\ file' = [exists |-> TRUE, content |-> <<>>]
          /\ pc' = "dump"
          /\ UNCHANGED <<outcome, failedAt>>
       \/ /\ Raise("open")
          /\ UNCHANGED file
    /\ UNCHANGED <<records, i, j, providers, now, version, output, dirExists,
                   stderr>>

\* mutant: nothing is written when there is no entry
DumpJsonSkipsEmpty ==
    /\ pc = "dump"
    /\ fsops' = fsops \o (IF output.providers = <<>> THEN <<"close">>
                          ELSE <<"write", "close">>)
    /\ LET text == IF output.providers = <<>> THEN <<>> ELSE JsonDump(output)
       IN  \/ /\ file' = [exists |-> TRUE, content |-> file.content \o text]
              /\ pc' = "summary"
              /\ UNCHANGED <<outcome, failedAt>>
           \/ /\ \E k \in 0..(Len(text) - 1) :
                    file' = [exists |-> TRUE,
                             content |-> file.content \o SubSeq(text, 1, k)]
              /\ Raise("write")
    /\ UNCHANGED <<records, i, j, providers, now, version, output, dirExists,
                   stderr>>

\* line 346 and the end of the with block: json.dump(...), then close
DumpJson ==
    /\ pc = "dump"
    /\ fsops' = fsops \o <<"write", "close">>
    /\ LET text == JsonDump(output)
       IN  \/ /\ file' = [exists |-> TRUE, content |-> file.content \o text]
              /\ pc' = "summary"
              /\ UNCHANGED <<outcome, failedAt>>
           \/ /\ \E k \in 0..(Len(text) - 1) :
                    file' = [exists |-> TRUE,
                             content |-> file.content \o SubSeq(text, 1, k)]
              /\ Raise("write")
    /\ UNCHANGED <<records, i, j, providers, now, version, output, dirExists,
                   stderr>>

\* mutant: the QTSPs line reports the number of entries
SummaryCountsEntries ==
    /\ pc = "summary"
    /\ stderr' = Append(stderr, [kind      |-> "summary",
                                 path      |-> OutputPath,
                                 version   |-> output.version,
                                 providers |-> output.providerCount,
                                 qtsps     |-> Len(providers),
                                 generated |-> output.generatedAt])
    /\ pc' = "done"
    /\ outcome' = "success"
    /\ UNCHANGED <<records, i, j, providers, now, version, output, dirExists,
                   file, fsops, failedAt>>

\* lines 348-352, then the function returns
Summary ==
    /\ pc = "summary"
    /\ stderr' = Append(stderr, [kind      |-> "summary",
                                 path      |-> OutputPath,
                                 version   |-> output.version,
                                 providers |-> output.providerCount,
                                 qtsps     |-> Len(records),
                                 generated |-> output.generatedAt])
    /\ pc' = "done"
    /\ outcome' = "success"
    /\ UNCHANGED <<records, i, j, providers, now, version, output, dirExists,
                   file, fsops, failedAt>>

Next ==
    \/ Start
    \/ AppendEntry
    \/ NextRecord
    \/ PrintGenerated
    \/ SampleVersion
    \/ BuildOutput
    \/ Mkdir
    \/ OpenFile
    \/ DumpJson
    \/ Summary

Spec == Init /\ [][Next]_vars

----------------------------------------------------------------------------
(* Reading the document back, and the vocabulary of the properties *)

JsonGet(text, key) == text[CHOOSE n \in DOMAIN text : text[n][1] = key][2]

JsonLoadEntry(t) ==
    [id                |-> JsonGet(t, "id"),
     country           |-> JsonGet(t, "country"),
     name              |-> JsonGet(t, "name"),
     serviceType       |-> JsonGet(t, "serviceType"),
     status            |-> JsonGet(t, "status"),
     issuerDnPattern   |-> JsonGet(t, "issuerDnPattern"),
     issuerDnCanonical |-> JsonGet(t, "issuerDnCanonical"),
     subjectKeyIdHex   |-> IF JsonGet(t, "subjectKeyIdHex") = JsonNull
                           THEN None ELSE JsonGet(t, "subjectKeyIdHex")]

JsonLoad(text) ==
    [version       |-> JsonGet(text, "version"),
     generatedAt   |-> JsonGet(text, "generatedAt"),
     source        |-> JsonGet(text, "source"),
     note          |-> JsonGet(text, "note"),
     providerCount |-> JsonGet(text, "providerCount"),
     providers     |-> LET ps == JsonGet(text, "providers")
                       IN  [k \in DOMAIN ps |-> JsonLoadEntry(ps[k])]]

RECURSIVE PatternCount(_)
PatternCount(rs) ==
    IF rs = <<>> THEN 0
    ELSE Len(Head(rs).issuerDnPatterns) + PatternCount(Tail(rs))

\* number of patterns of the records before record a
Offset(a) == PatternCount(SubSeq(records, 1, a - 1))

Flattened == pc \notin {"start", "flatten"}
Built == pc \in {"mkdir", "open", "dump", "summary", "done", "aborted"}
Written == pc \in {"summary", "done"}

\* the (record, pattern) index pairs of the input
Pairs == UNION {{<<a, b>> : b \in DOMAIN records[a].issuerDnPatterns} :
                a \in DOMAIN records}

HasSummary == \E k \in DOMAIN stderr : stderr[k].kind = "summary"
SummaryMsg == stderr[CHOOSE k \in DOMAIN stderr : stderr[k].kind = "summary"]

----------------------------------------------------------------------------
(* Properties *)

\* C1: once the table is flattened, providers has exactly P entries, P the
\* sum of the records' pattern counts; the envelope's providerCount is P and
\* its providers has P entries; and the document read back from the written
\* file has providerCount = Len(providers) = P.
C1_ProviderCount ==
    LET P == PatternCount(records)
    IN  /\ Flattened => Len(providers) = P
        /\ Built => /\ output.providerCount = P
                    /\ Len(output.providers) = P
        /\ Written => LET doc == JsonLoad(file.content)
                      IN  /\ doc.providerCount = Len(doc.providers)
                          /\ doc.providerCount = P

C1_Witness ==
    /\ pc = "done"
    /\ Len(records) = 2
    /\ PatternCount(records) = 3
    /\ JsonLoad(file.content).providerCount = 3

\* C2: the entry of pattern b of record a sits at position Offset(a) + b, in
\* the list while it is built, in the envelope and in the written document;
\* the list never holds more than the pairs visited so far, and holds exactly
\* one entry per pair once flattening is over.
C2_Order ==
    /\ pc = "flatten" =>
          /\ Len(providers) = Offset(i) + (j - 1)
          /\ \A pr \in Pairs :
                (pr[1] < i \/ (pr[1] = i /\ pr[2] < j)) =>
                    providers[Offset(pr[1]) + pr[2]] =
                        ProviderEntry(records[pr[1]],
                                      records[pr[1]].issuerDnPatterns[pr[2]])
    /\ Flattened =>
          /\ Len(providers) = Cardinality(Pairs)
          /\ \A pr \in Pairs :
                LET e == providers[Offset(pr[1]) + pr[2]]
                IN  /\ e.issuerDnPattern = records[pr[1]].issuerDnPatterns[pr[2]]
                    /\ e.country = records[pr[1]].country
                    /\ e.name = records[pr[1]].name
    /\ Built => output.providers = providers
    /\ Written => JsonLoad(file.content).providers = providers

C2_Witness ==
    /\ pc = "done"
    /\ Len(records) = 2
    /\ records[1].country # records[2].country
    /\ Len(records[1].issuerDnPatterns) = 2
    /\ Len(records[2].issuerDnPatterns) = 2
    /\ records[1].issuerDnPatterns[1] # records[1].issuerDnPatterns[2]
    /\ providers[4].issuerDnPattern = records[2].issuerDnPatterns[2]
    /\ providers[4].country = records[2].country

\* C3: every entry has id = country ":" name, the record's country, name,
\* serviceType and status unchanged, the raw pattern as issuerDnPattern and
\* the null sentinel as subjectKeyIdHex; the written document carries null
\* there.
C3_Fields ==
    /\ Flattened =>
          \A pr \in Pairs :
             LET e == providers[Offset(pr[1]) + pr[2]]
                 r == records[pr[1]]
             IN  /\ Len(e.id) = Len(r.country) + 1 + Len(r.name)
                 /\ SubSeq(e.id, 1, Len(r.country)) = r.country
                 /\ e.id[Len(r.country) + 1] = ":"
                 /\ SubSeq(e.id, Len(r.country) + 2, Len(e.id)) = r.name
                 /\ e.country = r.country
                 /\ e.name = r.name
                 /\ e.serviceType = r.serviceType
                 /\ e.status = r.status
                 /\ e.issuerDnPattern = r.issuerDnPatterns[pr[2]]
                 /\ e.subjectKeyIdHex = None
    /\ Written =>
          LET ps == JsonGet(file.content, "providers")
          IN  \A k \in DOMAIN ps : JsonGet(ps[k], "subjectKeyIdHex") = JsonNull

C3_Witness ==
    /\ pc = "done"
    /\ Len(providers) >= 2
    /\ providers[1].id = <<"E", "U", ":", "P", "S">>
    /\ providers[2].id = <<"C", "Z", ":", "P", "S">>
    /\ providers[1].serviceType = "QCertESig"
    /\ providers[1].status = "granted"

\* C4: issuerDnCanonical is the lower-cased pattern with its leading and
\* trailing whitespace removed: it has no upper-case character, neither
\* starts nor ends with whitespace, and the lower-cased pattern is it
\* surrounded by whitespace only; canonicalising it again changes nothing.
C4_Canonical ==
    \A k \in DOMAIN providers :
       LET p == providers[k].issuerDnPattern
           c == providers[k].issuerDnCanonical
       IN  /\ \A n \in DOMAIN c : c[n] \notin Upper
           /\ c # <<>> => (c[1] \notin Whitespace /\ c[Len(c)] \notin Whitespace)
           /\ \E lead \in 0..Len(p) :
                 /\ lead + Len(c) <= Len(p)
                 /\ \A n \in DOMAIN p :
                       IF n <= lead \/ n > lead + Len(c)
                       THEN p[n] \in Whitespace
                       ELSE c[n - lead] = LowerChar(p[n])
           /\ Canonical(c) = c

C4_Witness ==
    \E k \in DOMAIN providers :
       /\ providers[k].issuerDnPattern = <<" ", "A", "\t">>
       /\ providers[k].issuerDnCanonical = <<"a">>

\* C5: the date in version equals the date part of generatedAt in every
\* envelope.
C5_SameInstant ==
    Built => output.version.date = output.generatedAt.date

IOSteps == {"mkdir", "open", "write"}
Warned == \E k \in DOMAIN stderr : stderr[k].kind = "warning"
FullOps == <<"mkdir", "open_w", "write", "close">>
IsPrefix(s, t) == Len(s) <= Len(t) /\ s = SubSeq(t, 1, Len(s))
Count(s, x) == Cardinality({k \in DOMAIN s : s[k] = x})
Untouched == file.exists => file.content = OldContent

\* C6: a run fails only at mkdir, open or write; the failing operation was
\* attempted exactly once and is the last file-system operation of the run;
\* nothing runs after it (no open after a failed mkdir, no summary after a
\* failed write, no step at all); no warning is printed; and the file is
\* either as it was before the run or holds a proper prefix of the document.
C6_FailureAborts ==
    /\ ~Warned
    /\ outcome = "failure" =>
          /\ pc = "aborted"
          /\ failedAt \in IOSteps
          /\ ~ENABLED Next
          /\ ~HasSummary
          /\ failedAt = "mkdir" => fsops = <<"mkdir">> /\ Untouched
          /\ failedAt = "open" => fsops = <<"mkdir", "open_w">> /\ Untouched
          /\ failedAt = "write" =>
                /\ fsops = FullOps
                /\ IsPrefix(file.content, JsonDump(output))
                /\ Len(file.content) < Len(JsonDump(output))
          /\ file.content # JsonDump(output)
    /\ outcome # "failure" => failedAt = "none"

C6_Witness ==
    /\ outcome = "failure"
    /\ failedAt = "write"
    /\ Len(file.content) = 3
    /\ output.providerCount = 2

\* C7: with an empty table, providers stays empty, providerCount is 0, a run
\* without I/O failure creates the directory, writes the document and ends
\* in success, and the document read back has no provider.
C7_EmptyInput ==
    records = <<>> =>
       /\ providers = <<>>
       /\ Built => output.providerCount = 0 /\ output.providers = <<>>
       /\ ~ENABLED Next => (outcome = "success" \/ failedAt \in IOSteps)
       /\ outcome = "success" =>
             /\ fsops = FullOps
             /\ dirExists
             /\ file.exists
             /\ file.content = JsonDump(output)
             /\ JsonLoad(file.content).providers = <<>>
             /\ JsonLoad(file.content).providerCount = 0

C7_Witness ==
    /\ records = <<>>
    /\ outcome = "success"
    /\ file.content = JsonDump(output)

DistinctIds == {providers[k].id : k \in DOMAIN providers}
DistinctPairs == {<<providers[k].country, providers[k].name>> : k \in DOMAIN providers}
UniquePairs ==
    \A a, b \in DOMAIN records :
       (records[a].country = records[b].country /\ records[a].name = records[b].name)
          => a = b
NoEmptyRecord == \A a \in DOMAIN records : records[a].issuerDnPatterns # <<>>

\* C8 (as stated): the second count of the summary is the number of distinct
\* providers among the emitted entries, for every input.
C8_DistinctCount ==
    HasSummary =>
       /\ SummaryMsg.providers = Len(providers)
       /\ SummaryMsg.qtsps = Cardinality(DistinctIds)
       /\ SummaryMsg.qtsps = Cardinality(DistinctPairs)

\* C8 (amended): the summary reports the number of entries and the number of
\* input records; the latter is the number of distinct providers among the
\* entries when the records' (country, name) pairs are pairwise distinct and
\* every record has a pattern.
C8_RecordCount ==
    HasSummary =>
       /\ outcome = "success"
       /\ SummaryMsg.providers = Len(providers)
       /\ SummaryMsg.qtsps = Len(records)
       /\ (UniquePairs /\ NoEmptyRecord) =>
             /\ SummaryMsg.qtsps = Cardinality(DistinctPairs)
             /\ SummaryMsg.qtsps = Cardinality(DistinctIds)

C8_Witness ==
    /\ HasSummary
    /\ Len(records) = 2
    /\ UniquePairs
    /\ NoEmptyRecord
    /\ Len(providers) = 3
    /\ SummaryMsg.qtsps = 2

SamePair(a, b) ==
    records[a].country = records[b].country /\ records[a].name = records[b].name
HasDuplicate == \E a, b \in DOMAIN records : a # b /\ SamePair(a, b)

\* C9: the run never fails or warns because of repeated (country, name)
\* pairs (it fails at an I/O step or not at all, and otherwise succeeds);
\* entries of records with the same pair carry the same id, so entries of
\* one record share one id, and ids that differ between two records imply
\* that their pairs differ.
C9_DuplicateIds ==
    /\ ~Warned
    /\ outcome = "failure" => failedAt \in IOSteps
    /\ ~ENABLED Next => (outcome = "success" \/ failedAt \in IOSteps)
    /\ Flattened =>
          \A p, q \in Pairs :
             LET e == providers[Offset(p[1]) + p[2]]
                 f == providers[Offset(q[1]) + q[2]]
             IN  /\ SamePair(p[1], q[1]) => e.id = f.id
                 /\ e.id # f.id => ~SamePair(p[1], q[1])
                 /\ p[1] = q[1] => e.id = f.id

C9_Witness ==
    /\ outcome = "success"
    /\ Len(records) = 2
    /\ HasDuplicate
    /\ Len(providers) = 4
    /\ providers[1].id = providers[4].id
    /\ providers[1].issuerDnPattern # providers[4].issuerDnPattern

\* C10: the file-system operations of a run are, in this order, mkdir, open
\* for writing, write, close, each at most once and none before the envelope
\* is built from the complete list; the file is opened only in an existing
\* directory; the summary is printed only after the write, and then the file
\* holds exactly the new document, whatever it held before; and the run has
\* no further step exactly when it has ended in success or in failure.
C10_StepOrder ==
    /\ IsPrefix(fsops, FullOps)
    /\ fsops # <<>> =>
          /\ Built
          /\ Len(providers) = PatternCount(records)
          /\ output.providers = providers
          /\ output.providerCount = Len(providers)
    /\ pc \in {"dump", "summary", "done"} => dirExists /\ file.exists
    /\ HasSummary =>
          /\ fsops = FullOps
          /\ file.content = JsonDump(output)
    /\ outcome = "success" <=> HasSummary
    /\ outcome \in {"running", "success", "failure"}
    /\ ~ENABLED Next <=> outcome \in {"success", "failure"}

C10_Witness ==
    /\ outcome = "success"
    /\ fsops = FullOps
    /\ OldContent # JsonDump(output)
    /\ Len(providers) = 3
    /\ file.content = JsonDump(output)

====
